---- MODULE Spec2Model ----
(***************************************************************************)
(* Model of core/http/src/cookies.rs: the request-scoped CookieJar, a thin *)
(* wrapper around cookie::CookieJar (original + delta cookie sets, both     *)
(* hashed and compared by cookie NAME) and around its private child jar     *)
(* (authenticated encryption of the value, bound to the cookie name).       *)
(***************************************************************************)
EXTENDS Integers, FiniteSets, Sequences, TLC

\* jar2 is the jar of a second request made over the same key
VARIABLES jar, key, now, last, ret, response, jar2

vars == <<jar, key, now, last, ret, response, jar2>>

(* ---------------------------------------------------------------- bounds *)
\* the clock runs over 0..MaxNow (days)
MaxNow == 1

(* ------------------------------------------------------------- constants *)
\* time::Duration::weeks(1), in days
Week == 7
\* the removal cookie expires one year in the past, in days
Year == 365

(* -------------------------------------------------------- Option values *)
None == <<>>
Some(x) == <<x>>
is_none(o) == o = <<>>
unwrap(o) == o[1]

(* ---------------------------------------------------------------- values *)
\* A cookie value: plaintext v (k = "none"), or the sealed envelope of v
\* made under key k with the cookie name n as associated data. When the
\* sealed text was itself an envelope, in lists the <<key, name>> of the
\* envelopes inside, outermost first.
Plain(v) == [k |-> "none", n |-> "none", v |-> v, in |-> <<>>]

\* an envelope of which some bit was changed: no key authenticates it
tampered(value) == [value EXCEPT !.k = "broken"]

Names == {"session", "user_id"}
Keys == {"k1", "k2"}
\* the unit struct Key of a build without the private-cookies feature
Disabled == "disabled"
\* the key of this process, made once from the configured secret_key
secret_key == "k1"

(* --------------------------------------------------------------- cookies *)
Cookie(name, value, path, domain, same_site, http_only, secure, expires, max_age) ==
    [name |-> name, value |-> value, path |-> path, domain |-> domain,
     same_site |-> same_site, http_only |-> http_only, secure |-> secure,
     expires |-> expires, max_age |-> max_age]

\* Cookie::new(name, value): every attribute unset
CookieNew(name, v) ==
    Cookie(name, Plain(v), None, None, None, None, None, None, None)

\* a cookie on which the caller set every attribute
CookieFull(name, v) ==
    Cookie(name, Plain(v), Some("/custom"), Some("example.com"), Some("Lax"),
           Some(FALSE), Some(TRUE), Some(3), Some(60))

\* a cookie whose path the caller set to the empty string
CookieEmptyPath(name, v) ==
    Cookie(name, Plain(v), Some(""), None, None, None, None, None, None)

\* the cookies handlers and the request loader pass to the jar
InputCookies ==
    {CookieNew(n, "abc123") : n \in Names}
    \cup {CookieFull("session", "42"), CookieEmptyPath("session", "42")}

(* ------------------------------------------- cookie::CookieJar (the jar) *)
\* An entry of the jar's hash sets: a cookie and whether it is a removal.
\* Entries hash and compare by the cookie's name alone.
added(cookie) == [cookie |-> cookie, removed |-> FALSE]
removed(cookie) == [cookie |-> cookie, removed |-> TRUE]

\* HashSet::get(name): the entries of the set that are equal to name
lookup(set, name) == {e \in set : e.cookie.name = name}

\* replace that takes entries for equal when name, path and domain agree
replace_by_identity(set, entry) ==
    (set \ {e \in set : /\ e.cookie.name = entry.cookie.name
                         /\ e.cookie.path = entry.cookie.path
                         /\ e.cookie.domain = entry.cookie.domain})
    \cup {entry}

\* replace that empties the set first
replace_clear(set, entry) == {entry}

\* HashSet::replace(entry): the entry takes the place of any equal one
replace(set, entry) == (set \ lookup(set, entry.cookie.name)) \cup {entry}

\* cookie::CookieJar::new()
jar_new == [original_cookies |-> {}, delta_cookies |-> {}]

\* cookie::CookieJar::get(name): delta first, original second; a removal
\* entry is reported as absent
jar_get(j, name) ==
    LET d == lookup(j.delta_cookies, name)
        o == lookup(j.original_cookies, name)
        hit == IF d # {} THEN d ELSE o
    IN  IF hit = {} THEN None
        ELSE LET e == CHOOSE x \in hit : TRUE
             IN  IF e.removed THEN None ELSE Some(e.cookie)

\* cookie::CookieJar::add_original(cookie)
jar_add_original(j, cookie) ==
    [j EXCEPT !.original_cookies = replace(@, added(cookie))]

\* cookie::CookieJar::add(cookie)
\* jar_add with the entry appended instead of replacing an equal one
jar_add_append(j, cookie) ==
    [j EXCEPT !.delta_cookies = @ \cup {added(cookie)}]

jar_add(j, cookie) ==
    [j EXCEPT !.delta_cookies = replace(@, added(cookie))]

\* the removal cookie made of cookie at time t: empty value, max-age of 0,
\* expiration one year before t
make_removal(cookie, t) ==
    [cookie EXCEPT !.value = Plain(""), !.max_age = Some(0),
                   !.expires = Some(t - Year)]

\* cookie::CookieJar::remove(cookie): a removal entry is stored when the
\* name is an original cookie; otherwise the name is dropped from delta
jar_remove(j, cookie, t) ==
    IF lookup(j.original_cookies, cookie.name) # {}
    THEN [j EXCEPT !.delta_cookies = replace(@, removed(make_removal(cookie, t)))]
    ELSE [j EXCEPT !.delta_cookies = @ \ lookup(@, cookie.name)]

\* cookie::CookieJar::reset_delta()
jar_reset_delta(j) == [j EXCEPT !.delta_cookies = {}]

\* cookie::CookieJar::delta(): every entry of delta, removals included
jar_delta(j) == {e.cookie : e \in j.delta_cookies}

\* cookie::CookieJar::iter(): the delta entries that are not removals,
\* then the original entries that are equal (by name) to no delta entry
jar_iter(j) ==
    {e.cookie : e \in {x \in j.delta_cookies : ~x.removed}}
    \cup {e.cookie : e \in {x \in j.original_cookies :
                              lookup(j.delta_cookies, x.cookie.name) = {}}}

(* ------------------------------------ cookie::PrivateJar (the child jar) *)
\* encrypt_cookie: the value becomes the envelope sealed under k and bound
\* to the cookie's name; every other attribute is kept
encrypt_cookie(k, cookie) ==
    [cookie EXCEPT !.value =
        [k |-> k, n |-> cookie.name, v |-> cookie.value.v,
         in |-> IF cookie.value.k = "none" THEN <<>>
                ELSE <<<<cookie.value.k, cookie.value.n>>>> \o cookie.value.in]]

\* unseal: the plaintext, when the value is an envelope sealed under k for
\* this name; None otherwise
unseal(k, name, value) ==
    IF value.k = k /\ value.n = name
    THEN IF value.in = <<>> THEN Some(Plain(value.v))
         ELSE Some([k |-> value.in[1][1], n |-> value.in[1][2], v |-> value.v,
                    in |-> Tail(value.in)])
    ELSE None

\* PrivateJar::get(name)
private_get(j, k, name) ==
    LET c == jar_get(j, name)
    IN  IF is_none(c) THEN None
        ELSE LET v == unseal(k, name, unwrap(c).value)
             IN  IF is_none(v) THEN None
                 ELSE Some([unwrap(c) EXCEPT !.value = unwrap(v)])

\* PrivateJar::add(cookie)
private_add(j, k, cookie) == jar_add(j, encrypt_cookie(k, cookie))

\* PrivateJar::add_original(cookie)
private_add_original(j, k, cookie) == jar_add_original(j, encrypt_cookie(k, cookie))

\* PrivateJar::remove(cookie)
private_remove(j, k, cookie, t) == jar_remove(j, cookie, t)

(* ------------------------------------------------------ rocket CookieJar *)
\* the value &self of a method call
self == [jar |-> jar, key |-> key]

new(k) == [jar |-> jar_new, key |-> k]

\* set_defaults that sets the path without looking at it
set_defaults_overwrite(cookie) ==
    LET c1 == [cookie EXCEPT !.path = Some("/")]
    IN  IF is_none(c1.same_site) THEN [c1 EXCEPT !.same_site = Some("Strict")]
        ELSE c1

\* set_defaults that forgets the path
set_defaults_no_path(cookie) ==
    IF is_none(cookie.same_site) THEN [cookie EXCEPT !.same_site = Some("Strict")]
    ELSE cookie

set_defaults(cookie) ==
    LET c1 == IF is_none(cookie.path) THEN [cookie EXCEPT !.path = Some("/")]
              ELSE cookie
    IN  IF is_none(c1.same_site) THEN [c1 EXCEPT !.same_site = Some("Strict")]
        ELSE c1

\* set_private_defaults that sets HttpOnly without looking at it
set_private_defaults_force(cookie, t) ==
    LET c1 == IF is_none(cookie.path) THEN [cookie EXCEPT !.path = Some("/")]
              ELSE cookie
        c2 == IF is_none(c1.same_site) THEN [c1 EXCEPT !.same_site = Some("Strict")]
              ELSE c1
        c3 == [c2 EXCEPT !.http_only = Some(TRUE)]
    IN  IF is_none(c3.expires) THEN [c3 EXCEPT !.expires = Some(t + Week)]
        ELSE c3

set_private_defaults(cookie, t) ==
    LET c1 == IF is_none(cookie.path) THEN [cookie EXCEPT !.path = Some("/")]
              ELSE cookie
        c2 == IF is_none(c1.same_site) THEN [c1 EXCEPT !.same_site = Some("Strict")]
              ELSE c1
        c3 == IF is_none(c2.http_only) THEN [c2 EXCEPT !.http_only = Some(TRUE)]
              ELSE c2
    IN  IF is_none(c3.expires) THEN [c3 EXCEPT !.expires = Some(t + Week)]
        ELSE c3

\* get that looks into original before delta
get_original_first(s, name) ==
    jar_get([original_cookies |-> s.jar.delta_cookies,
             delta_cookies |-> s.jar.original_cookies], name)

get(s, name) == jar_get(s.jar, name)

\* get_private that returns the cookie of the plain jar
get_private_raw(s, name) == jar_get(s.jar, name)

\* get_private that tells a failed decryption from a missing cookie
get_private_reason(s, name) ==
    LET c == jar_get(s.jar, name)
    IN  IF is_none(c) THEN None
        ELSE IF is_none(unseal(s.key, name, unwrap(c).value))
             THEN Some([unwrap(c) EXCEPT !.value = Plain("")])
             ELSE private_get(s.jar, s.key, name)

get_private(s, name) == private_get(s.jar, s.key, name)

add(s, cookie) == jar_add(s.jar, set_defaults(cookie))

\* add_private that stores the cookie through the plain jar
add_private_plain(s, cookie, t) ==
    jar_add(s.jar, set_private_defaults(cookie, t))

add_private(s, cookie, t) ==
    private_add(s.jar, s.key, set_private_defaults(cookie, t))

\* remove that leaves the earlier delta entries of the name in place
remove_keep_old(s, cookie, t) ==
    [s.jar EXCEPT !.delta_cookies =
        @ \cup jar_remove(s.jar, [cookie EXCEPT !.path = Some("/")], t).delta_cookies]

remove(s, cookie, t) ==
    LET c == IF is_none(cookie.path) THEN [cookie EXCEPT !.path = Some("/")]
             ELSE cookie
    IN  jar_remove(s.jar, c, t)

\* remove_private that does not set the path
remove_private_no_path(s, cookie, t) == private_remove(s.jar, s.key, cookie, t)

remove_private(s, cookie, t) ==
    LET c == IF is_none(cookie.path) THEN [cookie EXCEPT !.path = Some("/")]
             ELSE cookie
    IN  private_remove(s.jar, s.key, c, t)

\* iter that yields the removals of delta too
iter_all(s) ==
    jar_delta(s.jar)
    \cup {e.cookie : e \in {x \in s.jar.original_cookies :
                              lookup(s.jar.delta_cookies, x.cookie.name) = {}}}

iter(s) == jar_iter(s.jar)

\* reset_delta that resets the whole jar
reset_delta_all(s) == jar_new

\* reset_delta that drops the removals only
reset_delta_removals(s) ==
    [s.jar EXCEPT !.delta_cookies = {e \in @ : ~e.removed}]

reset_delta(s) == jar_reset_delta(s.jar)

\* delta that leaves the removals out
delta_upserts_only(s) == {e.cookie : e \in {x \in s.jar.delta_cookies : ~x.removed}}

delta(s) == jar_delta(s.jar)

\* add_original that applies the defaults of add
add_original_defaults(s, cookie) == jar_add_original(s.jar, set_defaults(cookie))

add_original(s, cookie) == jar_add_original(s.jar, cookie)

add_original_private(s, cookie) == private_add_original(s.jar, s.key, cookie)

(* ------------------------------------------------------ Header projection *)
\* Cookie::encoded(): the Set-Cookie text of a cookie, as its parts; the
\* HttpOnly and Secure flags are written only when they are set to true
encoded(cookie) ==
    [name |-> cookie.name, value |-> cookie.value,
     http_only |-> (cookie.http_only = Some(TRUE)),
     same_site |-> cookie.same_site,
     secure |-> (cookie.secure = Some(TRUE)),
     path |-> cookie.path, domain |-> cookie.domain,
     max_age |-> cookie.max_age, expires |-> cookie.expires]

\* impl From<Cookie> for Header
header_from(cookie) == [name |-> "Set-Cookie", value |-> encoded(cookie)]

(* ----------------------------------------------------------------- steps *)
\* the orders in which an iterator over a hash set may yield its elements
orders(S) ==
    {s \in [1..Cardinality(S) -> S] : \A x \in S : \E i \in DOMAIN s : s[i] = x}

\* what delta held for name when a call began
held(name) ==
    LET d == lookup(jar.delta_cookies, name)
    IN  IF d = {} THEN "nothing"
        ELSE IF \E e \in d : e.removed THEN "removal" ELSE "upsert"

\* the record of the last call: its operation, the name or cookie it was
\* given, the time of the call and what the call found in delta
call(op, name, cookie, over) ==
    [op |-> op, name |-> name, cookie |-> cookie, at |-> now, over |-> over]

live == last.op # "respond"

\* #[cfg(feature = "private-cookies")]: the private methods exist only in a
\* build whose Key is the cookie crate's key
private_cookies == key # Disabled

Init ==
    /\ jar = new(secret_key).jar
    /\ key = new(secret_key).key
    /\ jar2 = new(secret_key).jar
    /\ now = 0
    /\ last = [op |-> "new", name |-> "", cookie |-> None, at |-> 0, over |-> "nothing"]
    /\ ret = <<>>
    /\ response = <<>>

\* time passes between two calls
Tick ==
    /\ live
    /\ now < MaxNow
    /\ now' = now + 1
    /\ UNCHANGED <<jar, key, last, ret, response, jar2>>

call_get ==
    \E name \in Names :
        /\ live
        /\ ret' = get(self, name)
        /\ last' = call("get", name, None, held(name))
        /\ UNCHANGED <<jar, key, now, response, jar2>>

call_get_private ==
    \E name \in Names :
        /\ live
        /\ private_cookies
        /\ ret' = get_private(self, name)
        /\ last' = call("get_private", name, None, held(name))
        /\ UNCHANGED <<jar, key, now, response, jar2>>

step_add(cookie) ==
    /\ live
    /\ jar' = add(self, cookie)
    /\ last' = call("add", cookie.name, Some(cookie), held(cookie.name))
    /\ ret' = <<>>
    /\ UNCHANGED <<key, now, response, jar2>>

call_add == \E cookie \in InputCookies : step_add(cookie)

step_add_private(cookie) ==
    /\ live
    /\ private_cookies
    /\ jar' = add_private(self, cookie, now)
    /\ last' = call("add_private", cookie.name, Some(cookie), held(cookie.name))
    /\ ret' = <<>>
    /\ UNCHANGED <<key, now, response, jar2>>

call_add_private == \E cookie \in InputCookies : step_add_private(cookie)

step_remove(cookie) ==
    /\ live
    /\ jar' = remove(self, cookie, now)
    /\ last' = call("remove", cookie.name, Some(cookie), held(cookie.name))
    /\ ret' = <<>>
    /\ UNCHANGED <<key, now, response, jar2>>

call_remove == \E cookie \in InputCookies : step_remove(cookie)

step_remove_private(cookie) ==
    /\ live
    /\ private_cookies
    /\ jar' = remove_private(self, cookie, now)
    /\ last' = call("remove_private", cookie.name, Some(cookie), held(cookie.name))
    /\ ret' = <<>>
    /\ UNCHANGED <<key, now, response, jar2>>

call_remove_private == \E cookie \in InputCookies : step_remove_private(cookie)

call_iter ==
    \E s \in orders(iter(self)) :
        /\ live
        /\ ret' = s
        /\ last' = call("iter", "", None, "nothing")
        /\ UNCHANGED <<jar, key, now, response, jar2>>

call_reset_delta ==
    /\ live
    /\ jar' = reset_delta(self)
    /\ last' = call("reset_delta", "", None, IF jar.delta_cookies = {} THEN "nothing" ELSE "entries")
    /\ ret' = <<>>
    /\ UNCHANGED <<key, now, response, jar2>>

call_delta ==
    \E s \in orders(delta(self)) :
        /\ live
        /\ ret' = s
        /\ last' = call("delta", "", None, "nothing")
        /\ UNCHANGED <<jar, key, now, response, jar2>>

step_add_original(cookie) ==
    /\ live
    /\ jar' = add_original(self, cookie)
    /\ last' = call("add_original", cookie.name, Some(cookie), held(cookie.name))
    /\ ret' = <<>>
    /\ UNCHANGED <<key, now, response, jar2>>

call_add_original == \E cookie \in InputCookies : step_add_original(cookie)

step_add_original_private(cookie) ==
    /\ live
    /\ private_cookies
    /\ jar' = add_original_private(self, cookie)
    /\ last' = call("add_original_private", cookie.name, Some(cookie), held(cookie.name))
    /\ ret' = <<>>
    /\ UNCHANGED <<key, now, response, jar2>>

call_add_original_private == \E cookie \in InputCookies : step_add_original_private(cookie)

\* response time: one header is adjoined for each cookie of delta()
respond ==
    \E s \in orders(delta(self)) :
        /\ live
        /\ response' = [i \in DOMAIN s |-> header_from(s[i])]
        /\ last' = call("respond", "", None, "nothing")
        /\ ret' = <<>>
        /\ UNCHANGED <<jar, key, now, jar2>>

Next ==
    \/ Tick
    \/ call_get
    \/ call_get_private
    \/ call_add
    \/ call_add_private
    \/ call_remove
    \/ call_remove_private
    \/ call_iter
    \/ call_reset_delta
    \/ call_delta
    \/ call_add_original
    \/ call_add_original_private
    \/ respond

Spec == Init /\ [][Next]_vars

(* ------------------------------------- one call on every possible cookie *)
\* every combination of attributes a caller can set on a cookie
AllCookies ==
    {Cookie(n, Plain("42"), p, d, ss, ho, sec, ex, ma) :
        n \in Names,
        p \in {None, Some("/"), Some("/custom"), Some("")},
        d \in {None, Some("example.com")},
        ss \in {None, Some("Strict"), Some("Lax")},
        ho \in {None, Some(TRUE), Some(FALSE)},
        sec \in {None, Some(TRUE)},
        ex \in {None, Some(3)},
        ma \in {None, Some(60)}}

\* the request's cookies are loaded, then the handler makes one call
loading == last.op \in {"new", "add_original"}

load_original == last.op = "new" /\ \E cookie \in InputCookies : step_add_original(cookie)

any_add == loading /\ \E cookie \in AllCookies : step_add(cookie)

any_add_private == loading /\ \E cookie \in AllCookies : step_add_private(cookie)

any_remove == loading /\ \E cookie \in AllCookies : step_remove(cookie)

NextDefaults ==
    \/ Tick
    \/ load_original
    \/ any_add
    \/ any_add_private
    \/ any_remove

SpecDefaults == Init /\ [][NextDefaults]_vars

(* ================================================================ claims *)
\* the cookies of a sequence of cookies
range(seq) == {seq[i] : i \in DOMAIN seq}

\* the entries that a set of the jar holds under a name
named(set, n) == {e \in set : e.cookie.name = n}

\* a removal cookie made at or before time t
is_tombstone(c, t) ==
    /\ c.value = Plain("")
    /\ c.max_age = Some(0)
    /\ ~is_none(c.expires)
    /\ unwrap(c.expires) < t

\* cookie after the plain defaults, stated attribute by attribute
plain_defaulted(c) ==
    [c EXCEPT !.path = IF c.path = None THEN Some("/") ELSE c.path,
              !.same_site = IF c.same_site = None THEN Some("Strict") ELSE c.same_site]

\* C1: get(name) is decided by delta first and original second: an upsert in
\* delta is returned whether or not original has the name, a removal in delta
\* makes get absent even though original has the name, and only when delta has
\* no entry for the name is the original entry (or absence) returned; after
\* add(c), get(c.name) is c with the plain defaults applied.
C1_GetDeltaFirst ==
    /\ \A n \in Names :
         LET d == named(jar.delta_cookies, n)
             o == named(jar.original_cookies, n)
             g == get(self, n)
         IN  /\ (\E e \in d : ~e.removed) =>
                  \E e \in d : ~e.removed /\ g = Some(e.cookie)
             /\ (\E e \in d : e.removed) => g = None
             /\ d = {} =>
                  IF o = {} THEN g = None ELSE \E e \in o : g = Some(e.cookie)
    /\ last.op = "get" => ret = get(self, last.name)
    /\ last.op = "add" =>
         get(self, last.name) = Some(plain_defaulted(unwrap(last.cookie)))

\* C1 witness: get was called on a name that original has and that delta
\* holds an upsert of another cookie for, and returned the delta cookie
C1_Witness ==
    /\ last.op = "get"
    /\ \E o \in named(jar.original_cookies, last.name) :
         \E d \in named(jar.delta_cookies, last.name) :
            /\ ~d.removed
            /\ d.cookie # o.cookie
            /\ ret = Some(d.cookie)

\* C2: when the name is in original, after remove get is absent and delta
\* holds exactly one removal for the name, with the cookie's name, an empty
\* value, a max-age of zero and an expiration before the time of the call;
\* a second remove still leaves exactly one.
C2_RemoveTombstone ==
    (last.op = "remove" /\ named(jar.original_cookies, last.name) # {}) =>
        /\ get(self, last.name) = None
        /\ Cardinality(named(jar.delta_cookies, last.name)) = 1
        /\ \A e \in named(jar.delta_cookies, last.name) :
             /\ e.removed
             /\ e.cookie.name = unwrap(last.cookie).name
             /\ is_tombstone(e.cookie, last.at)

\* C2 witness: a second remove of a name that original has, over the removal
\* the first one left
C2_Witness ==
    /\ last.op = "remove"
    /\ last.over = "removal"
    /\ named(jar.original_cookies, last.name) # {}
    /\ Cardinality({e \in jar.delta_cookies : e.removed /\ e.cookie.name = last.name}) = 1

\* the identity of a cookie, as the specification defines it
identity(c) == <<c.name, c.path, c.domain>>

C4_OriginalFrame ==
    [][jar'.original_cookies # jar.original_cookies =>
         last'.op \in {"add_original", "add_original_private"}]_vars

\* C4 witness: add was given a cookie of a name that original has, and
\* original still holds its own, different cookie
C4_Witness ==
    /\ last.op = "add"
    /\ \E o \in named(jar.original_cookies, last.name) :
         o.cookie # plain_defaulted(unwrap(last.cookie))

\* C5: reset_delta empties delta, so that iter yields exactly the cookies of
\* original and delta yields nothing; a second reset_delta changes nothing.
C5_State ==
    last.op = "reset_delta" =>
        /\ jar.delta_cookies = {}
        /\ iter(self) = {e.cookie : e \in jar.original_cookies}
        /\ delta(self) = {}

C5_Step ==
    /\ (last.op = "reset_delta" /\ last'.op = "reset_delta") => jar' = jar
    /\ (last.op = "reset_delta" /\ last'.op = "iter") =>
          range(ret') = {e.cookie : e \in jar.original_cookies}
    /\ (last.op = "reset_delta" /\ last'.op = "delta") => ret' = <<>>

C5_ResetDelta == [](C5_State) /\ [][C5_Step]_vars

\* C5 witness: reset_delta emptied a delta that held entries, on a jar with
\* original cookies
C5_Witness ==
    /\ last.op = "reset_delta"
    /\ last.over = "entries"
    /\ jar.original_cookies # {}
    /\ jar.delta_cookies = {}

\* the cookies of the upserts of delta
upserts == {e.cookie : e \in {x \in jar.delta_cookies : ~x.removed}}

\* C6, as stated: iter yields the upserts of delta and the original entries
\* whose identity (name, path, domain) has no delta entry.
C6_IterByIdentity ==
    last.op = "iter" =>
        range(ret) =
            upserts \cup
            {o.cookie : o \in {x \in jar.original_cookies :
                \A e \in jar.delta_cookies :
                    identity(e.cookie) # identity(x.cookie)}}

\* C6, amended: iter yields exactly the upserts of delta and the original
\* entries whose name has no delta entry; no removal, no original entry
\* whose name delta holds, and no name twice.
C6_IterView ==
    last.op = "iter" =>
        /\ range(ret) =
             upserts \cup
             {o.cookie : o \in {x \in jar.original_cookies :
                 named(jar.delta_cookies, x.cookie.name) = {}}}
        /\ \A e \in jar.delta_cookies : e.removed => e.cookie \notin range(ret)
        /\ \A i, j \in DOMAIN ret : ret[i].name = ret[j].name => i = j

\* C6 witness: original session, add_private(user_id), remove(session):
\* iter yields the sealed user_id only, delta holds it and the removal
C6_Witness ==
    /\ last.op = "iter"
    /\ {e.cookie.name : e \in jar.original_cookies} = {"session"}
    /\ \E e \in jar.delta_cookies : e.removed /\ e.cookie.name = "session"
    /\ \E e \in jar.delta_cookies :
         ~e.removed /\ e.cookie.name = "user_id" /\ e.cookie.value.k = key
    /\ Cardinality(delta(self)) = 2
    /\ Len(ret) = 1
    /\ ret[1].name = "user_id"

\* the headers of the response that carry the cookie name n
headers_of(n) == {i \in DOMAIN response : response[i].value.name = n}

\* C7: delta() returns every entry of delta, upserts and removals alike, and
\* the response carries exactly one Set-Cookie header per entry: none for an
\* original cookie that delta has no entry for, at most one per name.
C7_OneHeaderPerDelta ==
    /\ last.op = "delta" =>
         /\ range(ret) = {e.cookie : e \in jar.delta_cookies}
         /\ Len(ret) = Cardinality(jar.delta_cookies)
    /\ last.op = "respond" =>
         /\ Len(response) = Cardinality(jar.delta_cookies)
         /\ \A i \in DOMAIN response : response[i].name = "Set-Cookie"
         /\ \A e \in jar.delta_cookies :
              Cardinality({i \in headers_of(e.cookie.name) :
                  /\ response[i].value.value = e.cookie.value
                  /\ response[i].value.path = e.cookie.path
                  /\ response[i].value.expires = e.cookie.expires}) = 1
         /\ \A o \in jar.original_cookies :
              named(jar.delta_cookies, o.cookie.name) = {} =>
                  headers_of(o.cookie.name) = {}
         /\ \A n \in Names : Cardinality(headers_of(n)) <= 1

\* C7 witness: the response to a request that removed one original cookie
\* and left another one alone carries the removal and nothing else
C7_Witness ==
    /\ last.op = "respond"
    /\ \E e \in jar.delta_cookies : e.removed
    /\ \E o \in jar.original_cookies : named(jar.delta_cookies, o.cookie.name) = {}
    /\ Len(response) = 1
    /\ response[1].value.value = Plain("")

\* C8, as stated: every upsert of delta has a non-empty path and a same_site
C8_NonEmptyPath ==
    \A c \in upserts :
        /\ ~is_none(c.path)
        /\ unwrap(c.path) # ""
        /\ ~is_none(c.same_site)

\* C8, amended: every upsert of delta has a path and a same_site; the path
\* is "/" when the caller left it unset and the caller's path otherwise, so
\* it is empty only when the caller set the empty string.
C8_DefinedPath ==
    /\ \A c \in upserts : ~is_none(c.path) /\ ~is_none(c.same_site)
    /\ last.op \in {"add", "add_private"} =>
         \A e \in named(jar.delta_cookies, last.name) :
            LET c == unwrap(last.cookie)
            IN  /\ ~e.removed
                /\ e.cookie.path = IF c.path = None THEN Some("/") ELSE c.path
                /\ (c.path # Some("") => unwrap(e.cookie.path) # "")

\* C8 witness: add stored a cookie whose path the caller set to ""
C8_Witness ==
    /\ last.op = "add"
    /\ unwrap(last.cookie).path = Some("")
    /\ \E c \in upserts : c.name = last.name /\ c.path = Some("")

\* C9: add stores the cookie with path "/" only if the path was unset and
\* same_site Strict only if same_site was unset; every other attribute, and
\* a path or same_site the caller set, is stored as given.
C9_AddDefaults ==
    last.op = "add" =>
        LET c == unwrap(last.cookie)
            es == named(jar.delta_cookies, last.name)
        IN  /\ Cardinality(es) = 1
            /\ \A e \in es :
                 /\ ~e.removed
                 /\ e.cookie.path = IF c.path = None THEN Some("/") ELSE c.path
                 /\ e.cookie.same_site =
                      IF c.same_site = None THEN Some("Strict") ELSE c.same_site
                 /\ e.cookie.name = c.name
                 /\ e.cookie.value = c.value
                 /\ e.cookie.domain = c.domain
                 /\ e.cookie.http_only = c.http_only
                 /\ e.cookie.secure = c.secure
                 /\ e.cookie.expires = c.expires
                 /\ e.cookie.max_age = c.max_age

\* C9 witness: add of a cookie with path "/custom" and nothing else set
\* stored path "/custom", same_site Strict and no http_only or expires
C9_Witness ==
    /\ last.op = "add"
    /\ unwrap(last.cookie).path = Some("/custom")
    /\ unwrap(last.cookie).same_site = None
    /\ unwrap(last.cookie).http_only = None
    /\ unwrap(last.cookie).expires = None
    /\ \E c \in upserts :
         /\ c.name = last.name
         /\ c.path = Some("/custom")
         /\ c.same_site = Some("Strict")
         /\ c.http_only = None
         /\ c.expires = None

\* C10: add_private stores the cookie with the plain defaults, http_only
\* true if it was unset and expires one week after the call if it was unset;
\* an http_only or expires the caller set is kept. A defaulted expiry is
\* later than the time of the call, a removal's expiry is earlier.
C10_AddPrivateDefaults ==
    /\ last.op = "add_private" =>
         LET c == unwrap(last.cookie)
             es == named(jar.delta_cookies, last.name)
         IN  /\ Cardinality(es) = 1
             /\ \A e \in es :
                  /\ ~e.removed
                  /\ e.cookie.path = IF c.path = None THEN Some("/") ELSE c.path
                  /\ e.cookie.same_site =
                       IF c.same_site = None THEN Some("Strict") ELSE c.same_site
                  /\ e.cookie.http_only =
                       IF c.http_only = None THEN Some(TRUE) ELSE c.http_only
                  /\ e.cookie.expires =
                       IF c.expires = None THEN Some(last.at + 7) ELSE c.expires
                  /\ (c.expires = None => unwrap(e.cookie.expires) > last.at)
                  /\ e.cookie.name = c.name
                  /\ e.cookie.domain = c.domain
                  /\ e.cookie.secure = c.secure
                  /\ e.cookie.max_age = c.max_age
    /\ last.op = "remove" =>
         \A e \in named(jar.delta_cookies, last.name) :
            e.removed /\ unwrap(e.cookie.expires) < last.at

\* C10 witness: add_private kept an http_only of false and set the expiry
\* of a cookie that had none
C10_Witness ==
    /\ last.op = "add_private"
    /\ unwrap(last.cookie).http_only = Some(FALSE)
    /\ unwrap(last.cookie).expires = None
    /\ \E c \in upserts :
         /\ c.name = last.name
         /\ c.http_only = Some(FALSE)
         /\ c.expires = Some(last.at + 7)

\* C11: after add_private(c) on a jar with a real key, get_private(c.name)
\* returns a cookie with c's value, while the cookie that get and delta show
\* for the name carries another value.
C11_PrivateRoundTrip ==
    (last.op = "add_private" /\ key \in Keys) =>
        LET c == unwrap(last.cookie)
            p == get_private(self, last.name)
            g == get(self, last.name)
        IN  /\ ~is_none(p)
            /\ unwrap(p).value = c.value
            /\ ~is_none(g)
            /\ unwrap(g).value # c.value
            /\ \A d \in delta(self) : d.name = c.name => d.value # c.value

\* C11 witness: add_private stored a sealed value that get_private opens to
\* the plaintext the caller gave
C11_Witness ==
    /\ last.op = "add_private"
    /\ unwrap(last.cookie).value = Plain("abc123")
    /\ \E d \in delta(self) : d.name = last.name /\ d.value.k = key
    /\ ~is_none(get_private(self, last.name))
    /\ unwrap(get_private(self, last.name)).value = Plain("abc123")

(* ------------------------------------------- cookies sent by the client *)
other_name(n) == CHOOSE m \in Names : m # n

\* the value that add_private(Cookie::new(n, v)) stores under key k, as a
\* client sends it back
sent_back(k, n, v) == encrypt_cookie(k, CookieNew(n, v)).value

\* what the Cookie header of a request may carry under a name: the value
\* this process sealed for the name, the value it sealed for another name,
\* a value sealed under another key, a changed value, a plaintext
ClientValues(n) ==
    {sent_back(secret_key, n, "42"),
     sent_back(secret_key, other_name(n), "42"),
     sent_back("k2", n, "42"),
     tampered(sent_back(secret_key, n, "42")),
     Plain("42")}

ClientCookies ==
    UNION {{Cookie(n, v, None, None, None, None, None, None, None) :
                v \in ClientValues(n)} : n \in Names}

client_load == \E cookie \in ClientCookies : step_add_original(cookie)

client_load_private == \E cookie \in ClientCookies : step_add_original_private(cookie)

NextClient ==
    \/ client_load
    \/ client_load_private
    \/ call_add_original_private
    \/ call_add_private
    \/ call_remove_private
    \/ call_get
    \/ call_get_private
    \/ call_iter
    \/ call_delta

SpecClient == Init /\ [][NextClient]_vars

\* value is an envelope that key k authenticates for the cookie name n
intact(value, k, n) == value.k = k /\ value.n = n

\* C12: with a real key, get_private(name) is absent whenever the value of
\* the cookie that get shows for the name is not an intact envelope sealed
\* under that key for that name: a changed value, a value sealed for another
\* name, a value sealed under another key.
C12_TamperRejected ==
    (last.op = "get_private" /\ key \in Keys) =>
        LET g == get(self, last.name)
        IN  (~is_none(g) /\ ~intact(unwrap(g).value, key, last.name)) => ret = None

\* C12 witness: get_private was asked for a cookie whose value this process
\* sealed for the other name, and returned nothing
C12_Witness ==
    /\ last.op = "get_private"
    /\ ~is_none(get(self, last.name))
    /\ unwrap(get(self, last.name)).value =
          sent_back(key, other_name(last.name), "42")
    /\ ret = None

\* C13: get_private can always be called and returns the one absent result
\* for a missing name and for every decryption failure, a cookie of the name
\* otherwise; get_private, get, iter and delta leave the jar unchanged.
C13_Result ==
    /\ (live /\ private_cookies) => ENABLED call_get_private
    /\ last.op = "get_private" =>
         LET g == get(self, last.name)
         IN  /\ is_none(g) => ret = None
             /\ (~is_none(g) /\ ~intact(unwrap(g).value, key, last.name)) =>
                   ret = None
             /\ Len(ret) <= 1
             /\ \A i \in DOMAIN ret : ret[i].name = last.name

C13_Frame ==
    last'.op \in {"get", "get_private", "iter", "delta"} =>
        jar' = jar /\ key' = key

C13_GetPrivateTotal == [](C13_Result) /\ [][C13_Frame]_vars

\* C13 witness: get_private returned nothing for a cookie that is there but
\* whose value was changed, as it does for a missing name
C13_Witness ==
    /\ last.op = "get_private"
    /\ ~is_none(get(self, last.name))
    /\ unwrap(get(self, last.name)).value.k = "broken"
    /\ ret = None
    /\ is_none(get(self, other_name(last.name)))
    /\ is_none(get_private(self, other_name(last.name)))

\* C14, as stated: add_original and add_original_private store the cookie
\* exactly as given.
C14_StoredAsGiven ==
    last.op \in {"add_original", "add_original_private"} =>
        named(jar.original_cookies, last.name) = {added(unwrap(last.cookie))}

\* C14, amended: add_original stores the cookie exactly as given;
\* add_original_private stores it with every attribute as given (no
\* defaults) but with the value sealed under the jar's key and the cookie's
\* name, so that get_private gives back the value it was given. A value that
\* add_private produced under the jar's key for the name is read back as its
\* plaintext by get_private when it is loaded with add_original.
C14_LoadOriginal ==
    /\ last.op = "add_original" =>
         LET c == unwrap(last.cookie)
         IN  /\ named(jar.original_cookies, last.name) = {added(c)}
             /\ \A v \in {"42", "abc123"} :
                  (c.value = sent_back(key, last.name, v)
                     /\ named(jar.delta_cookies, last.name) = {}) =>
                      /\ ~is_none(get_private(self, last.name))
                      /\ unwrap(get_private(self, last.name)).value = Plain(v)
    /\ last.op = "add_original_private" =>
         LET c == unwrap(last.cookie)
             es == named(jar.original_cookies, last.name)
         IN  /\ Cardinality(es) = 1
             /\ \A e \in es :
                  /\ ~e.removed
                  /\ [e.cookie EXCEPT !.value = c.value] = c
                  /\ e.cookie.value # c.value
                  /\ intact(e.cookie.value, key, c.name)
             /\ named(jar.delta_cookies, last.name) = {} =>
                  get_private(self, last.name) = Some(c)

\* C14 witness: add_original_private was given a value that this process
\* had sealed for the name; it stored the value sealed once more, and
\* get_private gives the sealed value, not its plaintext
C14_Witness ==
    /\ last.op = "add_original_private"
    /\ unwrap(last.cookie).value = sent_back(key, last.name, "42")
    /\ \E e \in named(jar.original_cookies, last.name) : e.cookie.value.in # <<>>
    /\ named(jar.delta_cookies, last.name) = {}
    /\ unwrap(get_private(self, last.name)).value # Plain("42")

(* ------------------------------- a build without private-cookies (mod key) *)
\* the byte strings a key may be derived from
Secrets == {"s1", "s2"}

\* Key::generate()
generate == Disabled

\* Key::try_generate() that finds no randomness
try_generate_none == None

\* Key::try_generate()
try_generate == Some(Disabled)

\* Key::derive_from(_bytes)
derive_from(bytes) == Disabled

\* the key of the process is made by one of the three operations, then the
\* jar of a request is made over it
InitDisabled ==
    /\ \E how \in {"generate", "try_generate", "derive_from"} :
         \E bytes \in Secrets :
            /\ key = CASE how = "generate" -> generate
                       [] how = "try_generate" ->
                            IF is_none(try_generate) THEN "absent"
                            ELSE unwrap(try_generate)
                       [] OTHER -> derive_from(bytes)
            /\ last = [op |-> how, name |-> bytes, cookie |-> None, at |-> 0,
                       over |-> "nothing"]
    /\ jar = new(key).jar
    /\ jar2 = new(key).jar
    /\ now = 0
    /\ ret = <<>>
    /\ response = <<>>

NextDisabled ==
    \/ Tick
    \/ call_get
    \/ call_add
    \/ call_remove
    \/ call_iter
    \/ call_reset_delta
    \/ call_delta
    \/ call_add_original
    \/ respond

SpecDisabled == InitDisabled /\ [][NextDisabled]_vars

\* C15, as stated: with the stand-in key the private operations run as a
\* pass-through, so that every jar call can be made with either key.
C15_PassThrough ==
    (key = Disabled /\ live) =>
        /\ ENABLED call_add_private
        /\ ENABLED call_get_private

\* C15, amended: generate, try_generate and derive_from all give the same
\* stand-in key (try_generate is never absent, derive_from does not depend
\* on its input); with that key the plain jar calls run and store the value
\* unchanged, and the private calls do not exist.
C15_StandInKey ==
    /\ key = Disabled
    /\ ~ENABLED call_add_private
    /\ ~ENABLED call_get_private
    /\ ~ENABLED call_remove_private
    /\ ~ENABLED call_add_original_private
    /\ live => (ENABLED call_add /\ ENABLED call_get /\ ENABLED call_remove)
    /\ last.op = "add" =>
         /\ ~is_none(get(self, last.name))
         /\ unwrap(get(self, last.name)).value = unwrap(last.cookie).value

\* C15 witness: a jar over the key that try_generate made: add can be
\* called, add_private cannot
C15_Witness ==
    /\ last.op = "try_generate"
    /\ key = Disabled
    /\ ENABLED call_add
    /\ ~ENABLED call_add_private

\* C16, as stated: an add replaces only the delta entry that agrees with
\* the cookie on name, path and domain; an upsert of the same name with
\* another path or domain stays in delta beside the new one.
C16_TripleIdentity ==
    [][last'.op = "add" =>
         \A e \in jar.delta_cookies :
            (/\ ~e.removed
             /\ e.cookie.name = last'.name
             /\ identity(e.cookie) # identity(plain_defaulted(unwrap(last'.cookie))))
            => e \in jar'.delta_cookies]_vars

\* C16, amended: a mutation is matched against original and delta by the
\* cookie name alone. After add(c) the only delta entry of c's name is c
\* (with defaults), after remove(c) of a name that original has get is
\* absent and the only delta entry of the name is the removal, whatever the
\* path and domain of the earlier cookies; delta never holds two entries of
\* one name.
C16_NameIdentity ==
    /\ last.op = "add" =>
         named(jar.delta_cookies, last.name) =
            {added(plain_defaulted(unwrap(last.cookie)))}
    /\ (last.op = "remove" /\ named(jar.original_cookies, last.name) # {}) =>
         /\ get(self, last.name) = None
         /\ Cardinality(named(jar.delta_cookies, last.name)) = 1
         /\ \A e \in named(jar.delta_cookies, last.name) : e.removed
    /\ \A e1, e2 \in jar.delta_cookies :
         e1.cookie.name = e2.cookie.name => e1 = e2

\* C16 witness: remove of a cookie with one path masked the original cookie
\* of that name, which has another path and domain
C16_Witness ==
    /\ last.op = "remove"
    /\ get(self, last.name) = None
    /\ \E o \in named(jar.original_cookies, last.name) :
         \E e \in named(jar.delta_cookies, last.name) :
            /\ e.removed
            /\ o.cookie.path # e.cookie.path
            /\ o.cookie.domain # e.cookie.domain

\* C17: after remove(c), in every jar state, delta holds a removal with c's
\* name and domain and with c's path, or "/" when c had no path.
C17_AlwaysTombstone ==
    last.op = "remove" =>
        LET c == unwrap(last.cookie)
        IN  \E e \in jar.delta_cookies :
               /\ e.removed
               /\ e.cookie.name = c.name
               /\ e.cookie.domain = c.domain
               /\ e.cookie.path = IF c.path = None THEN Some("/") ELSE c.path

\* what remove and remove_private must leave in delta under the cookie's
\* name: one removal with the cookie's attributes, its path or "/", when
\* original has the name; nothing otherwise
removal_left(c, at) ==
    IF named(jar.original_cookies, c.name) = {} THEN {}
    ELSE {removed([c EXCEPT !.path = IF c.path = None THEN Some("/") ELSE c.path,
                            !.value = Plain(""), !.max_age = Some(0),
                            !.expires = Some(at - Year)])}

\* C18: from every jar state and for every cookie, remove_private and remove
\* give the same jar; remove_private needs no decryption and leaves what
\* remove leaves.
C18_RemovePrivateSame ==
    /\ \A c \in InputCookies : remove_private(self, c, now) = remove(self, c, now)
    /\ last.op \in {"remove", "remove_private"} =>
         named(jar.delta_cookies, last.name) =
            removal_left(unwrap(last.cookie), last.at)

\* C18 witness: remove_private of a cookie without a path replaced an upsert
\* by a removal with path "/", while the original value of the name is a
\* plaintext that does not authenticate
C18_Witness ==
    /\ last.op = "remove_private"
    /\ last.over = "upsert"
    /\ unwrap(last.cookie).path = None
    /\ \E o \in named(jar.original_cookies, last.name) : o.cookie.value.k = "none"
    /\ \E e \in named(jar.delta_cookies, last.name) :
         e.removed /\ e.cookie.path = Some("/")

\* the jar and key after a step
self_next == [jar |-> jar', key |-> key']

\* C20: add, add_private, remove, remove_private, add_original and
\* add_original_private of a cookie named n leave get(m), get_private(m)
\* and the delta entries of every other name m as they were.
C20_Step ==
    last'.op \in {"add", "add_private", "remove", "remove_private",
                  "add_original", "add_original_private"} =>
        \A m \in Names \ {last'.name} :
            /\ get(self_next, m) = get(self, m)
            /\ get_private(self_next, m) = get_private(self, m)
            /\ named(jar'.delta_cookies, m) = named(jar.delta_cookies, m)
            /\ named(jar'.original_cookies, m) = named(jar.original_cookies, m)

C20_OtherNamesFrame == [][C20_Step]_vars

\* C20 witness: add_private was called while original and delta held
\* entries of the other name
C20_Witness ==
    /\ last.op = "add_private"
    /\ named(jar.delta_cookies, last.name) # {}
    /\ named(jar.delta_cookies, other_name(last.name)) # {}
    /\ named(jar.original_cookies, other_name(last.name)) # {}

(* ------------------------------------------ two jars over the same key *)
\* the cookies the two requests work with
SharedCookies == {CookieNew("session", "abc123"), CookieFull("session", "42")}

JarIds == {"jar1", "jar2"}

\* the jar of a request
pick(id) == IF id = "jar1" THEN jar ELSE jar2

\* &self of a call on the jar of a request: its own jar, the shared key
on(id) == [jar |-> pick(id), key |-> key]

\* a store that writes through to both jars
put_both(id, j) == jar' = j /\ jar2' = j

\* each CookieJar owns its cookie::CookieJar: a call writes its own jar
put(id, j) ==
    IF id = "jar1" THEN jar' = j /\ jar2' = jar2
    ELSE jar2' = j /\ jar' = jar

\* the record of a call on the jar id
call_on(id, op, name, cookie) ==
    [op |-> op, name |-> name, cookie |-> cookie, at |-> now, over |-> id]

shared_add ==
    \E id \in JarIds, cookie \in SharedCookies :
        /\ put(id, add(on(id), cookie))
        /\ last' = call_on(id, "add", cookie.name, Some(cookie))
        /\ ret' = <<>>
        /\ UNCHANGED <<key, now, response>>

shared_add_private ==
    \E id \in JarIds, cookie \in SharedCookies :
        /\ put(id, add_private(on(id), cookie, now))
        /\ last' = call_on(id, "add_private", cookie.name, Some(cookie))
        /\ ret' = <<>>
        /\ UNCHANGED <<key, now, response>>

shared_remove ==
    \E id \in JarIds, cookie \in SharedCookies :
        /\ put(id, remove(on(id), cookie, now))
        /\ last' = call_on(id, "remove", cookie.name, Some(cookie))
        /\ ret' = <<>>
        /\ UNCHANGED <<key, now, response>>

shared_add_original ==
    \E id \in JarIds, cookie \in SharedCookies :
        /\ put(id, add_original(on(id), cookie))
        /\ last' = call_on(id, "add_original", cookie.name, Some(cookie))
        /\ ret' = <<>>
        /\ UNCHANGED <<key, now, response>>

shared_reset_delta ==
    \E id \in JarIds :
        /\ put(id, reset_delta(on(id)))
        /\ last' = call_on(id, "reset_delta", "", None)
        /\ ret' = <<>>
        /\ UNCHANGED <<key, now, response>>

shared_get_private ==
    \E id \in JarIds, name \in {"session"} :
        /\ ret' = get_private(on(id), name)
        /\ last' = call_on(id, "get_private", name, None)
        /\ UNCHANGED <<jar, jar2, key, now, response>>

NextShared ==
    \/ shared_add
    \/ shared_add_private
    \/ shared_remove
    \/ shared_add_original
    \/ shared_reset_delta
    \/ shared_get_private

SpecShared == Init /\ [][NextShared]_vars

\* C19: whatever the interleaving of the calls on two jars made over the
\* same key, no call changes the key, a call on one jar leaves the other
\* jar as it was, and the jar a cookie is added to holds that cookie.
C19_Step ==
    /\ key' = key
    /\ last'.over = "jar1" => jar2' = jar2
    /\ last'.over = "jar2" => jar' = jar
    /\ \A id \in JarIds :
         (last'.over = id /\ last'.op = "add") =>
            named(IF id = "jar1" THEN jar'.delta_cookies ELSE jar2'.delta_cookies,
                  last'.name)
              = {added(plain_defaulted(unwrap(last'.cookie)))}

C19_JarsIndependent == [][C19_Step]_vars

\* C19 witness: after calls on both jars, the two jars hold different
\* cookies and the last call was made on the second one
C19_Witness ==
    /\ last.over = "jar2"
    /\ jar.delta_cookies # {}
    /\ jar2.delta_cookies # {}
    /\ jar.original_cookies # {}
    /\ jar # jar2

====
